---- MODULE Spec2Model ----
(***************************************************************************)
(* Model of the Chicago crime data loader (src/main.py): the Cloud         *)
(* Function crime_data_loader pages through the Socrata API with           *)
(* fetch_crime_data, normalises each record with process_record and hands  *)
(* every batch to pipeline.run.                                            *)
(***************************************************************************)
EXTENDS Integers, Sequences, FiniteSets, TLC

(* ------------------------------ bounds --------------------------------- *)

\* Largest number of records the simulated source holds.
MaxN == 7

\* Invocations of the Cloud Function in one behaviour.
MaxRuns == 2

\* Largest page-count cap / resume page a caller puts in the request.
MaxCap == 2

\* BATCH_SIZE is 50 in src/main.py:18; the model scales it down so that runs
\* of several pages, exact multiples and short last pages fit in MaxN.
BATCH_SIZE == 3

\* The wall clock, in days, when the first invocation starts.
StartTime == 2

(* ----------------------------- constants ------------------------------- *)

\* timedelta(days=1): the clock of the model counts days.
DAY == 1

(* --------------------------- values and text --------------------------- *)

\* A timestamp text as the API sends it; t = -1 stands for a text that
\* '%Y-%m-%dT%H:%M:%S.%f' does not match.
Text(t) == [kind |-> "text", t |-> t]

Malformed == Text(-1)

\* datetime.strptime(s, '%Y-%m-%dT%H:%M:%S.%f'): defined on well-formed text.
CanParse(s) == s.kind = "text" /\ s.t >= 0

strptime(s) == [kind |-> "datetime", t |-> s.t]

\* datetime.isoformat()
isoformat(t) == Text(t)

\* yesterday.strftime('%Y-%m-%dT%H:%M:%S.000')
strftime(t) == Text(t)

(* ------------------------------ records -------------------------------- *)

TimeFields == {"date", "updated_on"}

\* Mutant: a parse error is swallowed and the record goes on.
process_record_never_raises(record) == FALSE

\* process_record raises when a present date / updated_on does not parse.
process_record_raises(record) ==
    \E f \in TimeFields \cap DOMAIN record : ~CanParse(record[f])

\* Mutant: the record is returned without the load stamp.
process_record_unstamped(record, clock) ==
    [f \in DOMAIN record |->
        IF f \in TimeFields THEN strptime(record[f]) ELSE record[f]]

\* process_record: parse date and updated_on when present, stamp
\* _dlt_load_id with the wall clock, leave every other field as it is.
process_record(record, clock) ==
    [f \in DOMAIN record \cup {"_dlt_load_id"} |->
        IF f = "_dlt_load_id" THEN isoformat(clock)
        ELSE IF f \in TimeFields THEN strptime(record[f])
        ELSE record[f]]

(* ------------------------------ the source ----------------------------- *)

\* Raw record number i of the source: updated at time t; every third record
\* carries no date; the record at position bad carries a malformed date.
RawRecord(i, t, bad) ==
    IF i = bad
    THEN [id |-> i, updated_on |-> Text(t), date |-> Malformed]
    ELSE IF i % 3 = 0
    THEN [id |-> i, updated_on |-> Text(t)]
    ELSE [id |-> i, updated_on |-> Text(t), date |-> Text(t)]

\* A dataset of n records ordered by updated_on descending: the first s were
\* updated at StartTime, the others a day before.
Dataset(n, s, bad) ==
    [i \in 1..n |-> RawRecord(i, IF i <= s THEN StartTime ELSE StartTime - DAY, bad)]

(* ------------------------------ state ---------------------------------- *)

VARIABLES
    source,         \* the dataset behind the API, in the order the API sorts it
    now,            \* the wall clock, in days
    run,            \* number of invocations started so far
    request,        \* the HTTP request of the current invocation
    pc,             \* idle, fetching, loading, done, failed
    offset,         \* crime_data_loader: offset
    total_records,  \* crime_data_loader: total_records
    last_load_info, \* crime_data_loader: last_load_info (0 = None)
    batch,          \* crime_data_loader: batch
    fetchLog,       \* offsets of the requests sent to the API in this invocation
    loads,          \* batches pipeline.run has loaded in this invocation
    table,          \* rows of the destination table crimes
    failed_step,    \* the step whose exception ended this invocation, or none
    result,         \* what the invocation returned, or NoResult
    sinceLog        \* $where lower bounds of the requests sent in this invocation

\* process_record applied to one record on its own.
VARIABLES
    raw,            \* the record handed to process_record
    normalized,     \* the record process_record returned
    norm_pc         \* input, returned, raised

\* The generator get_crime_data of src/duckdb_test.py.
VARIABLES
    g_pc,           \* idle, fetching, done
    g_offset,       \* get_crime_data: offset
    g_yielded,      \* records the generator has yielded
    g_fetchLog      \* offsets of the requests the generator sent

loaderVars == <<source, now, run, request, pc, offset, total_records, last_load_info,
                batch, fetchLog, loads, table, failed_step, result, sinceLog>>

normVars == <<raw, normalized, norm_pc>>

genVars == <<g_pc, g_offset, g_yielded, g_fetchLog>>

vars == <<loaderVars, normVars, genVars>>

NoResult == [status |-> "none"]

\* The shape of the state of an invocation.
TypeOK ==
    /\ pc \in {"idle", "fetching", "loading", "done", "failed"}
    /\ run \in 0..MaxRuns
    /\ now \in Nat
    /\ offset \in Nat
    /\ total_records \in Nat
    /\ last_load_info \in Nat
    /\ Len(batch) <= BATCH_SIZE
    /\ \A i \in 1..Len(fetchLog) : fetchLog[i] \in Nat
    /\ \A i \in 1..Len(loads) : Len(loads[i]) \in 1..BATCH_SIZE
    /\ failed_step \in {"none", "credential", "fetch", "normalize", "load"}
    /\ result.status \in {"none", "success", "error"}

Min(a, b) == IF a <= b THEN a ELSE b

\* The requests a caller may send: a resume offset j * BATCH_SIZE (0 when
\* absent) and a page cap max_batches = k (0 when absent).
Requests ==
    {[offset |-> j * BATCH_SIZE, max_batches |-> k] : j \in 0..MaxCap, k \in 0..MaxCap}

(* ------------------------------ the API -------------------------------- *)

\* The rows the API selects for $where updated_on >= since, in $order.
ResultSet(data, since) ==
    SelectSeq(data, LAMBDA r : r.updated_on.t >= since.t)

\* Mutant: $offset taken as the position of the first row wanted, so
\* successive pages overlap by one row.
PageOverlapping(data, off, limit, clock) ==
    LET rows == ResultSet(data, strftime(clock - DAY))
    IN  SubSeq(rows, IF off = 0 THEN 1 ELSE off, Min(off + limit, Len(rows)))

\* The response to one request of fetch_crime_data: $limit rows from $offset
\* of the rows updated since 24 hours before the clock.
Page(data, off, limit, clock) ==
    LET yesterday_str == strftime(clock - DAY)
        rows == ResultSet(data, yesterday_str)
    IN  SubSeq(rows, off + 1, Min(off + limit, Len(rows)))

\* The for loop of crime_data_loader over the generator: records are
\* processed one by one and the loop breaks at BATCH_SIZE records.
Accumulate(page, clock) ==
    [i \in 1..Min(Len(page), BATCH_SIZE) |-> process_record(page[i], clock)]

\* Some record the loop consumes makes process_record raise.
AccumulateRaises(page) ==
    \E i \in 1..Min(Len(page), BATCH_SIZE) : process_record_raises(page[i])

(* ------------------------------ the sink ------------------------------- *)

Ids(rows) == {rows[i].id : i \in 1..Len(rows)}

\* write_disposition "append": the rows are added to the table.
AppendRows(tbl, rows) == tbl \o rows

\* write_disposition "merge" on primary_key id: rows of the table with a key
\* of the batch are replaced, the others kept.
MergeRows(tbl, rows) ==
    SelectSeq(tbl, LAMBDA r : r.id \notin Ids(rows)) \o rows

\* The hints of the decorator of fetch_crime_data.
ResourceHints ==
    [table_name |-> "crimes", write_disposition |-> "merge", primary_key |-> "id"]

\* pipeline.run(batch, table_name='crimes'): batch is a plain list of
\* dictionaries and no write_disposition is passed, so the rows are appended;
\* the hints of the resource do not travel with the records it yielded.
RunWriteDisposition == "append"

pipeline_run(tbl, rows) ==
    IF RunWriteDisposition = "merge" THEN MergeRows(tbl, rows)
    ELSE AppendRows(tbl, rows)

(* ------------------------------ actions -------------------------------- *)

\* process_record is not running on its own.
NormIdle ==
    /\ raw = <<>>
    /\ normalized = <<>>
    /\ norm_pc = "idle"

\* The generator of src/duckdb_test.py has not been started.
GenIdle ==
    /\ g_pc = "idle"
    /\ g_offset = 0
    /\ g_yielded = <<>>
    /\ g_fetchLog = <<>>

Init ==
    /\ source \in {Dataset(n, s, bad) : n \in 0..MaxN, s \in 0..MaxN, bad \in 0..MaxN}
    /\ now = StartTime
    /\ run = 0
    /\ request = [offset |-> 0, max_batches |-> 0]
    /\ pc = "idle"
    /\ offset = 0
    /\ total_records = 0
    /\ last_load_info = 0
    /\ batch = <<>>
    /\ fetchLog = <<>>
    /\ loads = <<>>
    /\ table = <<>>
    /\ failed_step = "none"
    /\ result = NoResult
    /\ sinceLog = <<>>
    /\ NormIdle
    /\ GenIdle

\* Mutant: the invocation resumes at the offset of the request.
StartOffsetFromRequest(req) == req.offset

\* The offset crime_data_loader starts from: always 0, the request is not read.
StartOffset(req) == 0

\* crime_data_loader is invoked (the first time, or again after it returned).
Invoke ==
    /\ pc = "idle" \/ result # NoResult
    /\ run < MaxRuns
    /\ run' = run + 1
    /\ request' \in Requests
    /\ offset' = StartOffset(request')
    /\ total_records' = 0
    /\ last_load_info' = 0
    /\ batch' = <<>>
    /\ fetchLog' = <<>>
    /\ loads' = <<>>
    /\ failed_step' = "none"
    /\ result' = NoResult
    /\ pc' = "fetching"
    /\ sinceLog' = <<>>
    /\ UNCHANGED <<source, now, table>>
    /\ UNCHANGED <<normVars, genVars>>

\* Mutant: the headers are resolved after the request has gone out.
FetchCredentialFailsAfterRequest ==
    /\ pc = "fetching"
    /\ pc' = "failed"
    /\ failed_step' = "credential"
    /\ batch' = <<>>
    /\ fetchLog' = Append(fetchLog, offset)
    /\ sinceLog' = Append(sinceLog, strftime(now - DAY))
    /\ UNCHANGED <<source, now, run, request, offset, total_records,
                   last_load_info, loads, table, result>>
    /\ UNCHANGED <<normVars, genVars>>

\* get_api_headers raises inside fetch_crime_data: no request is sent.
FetchCredentialFails ==
    /\ pc = "fetching"
    /\ pc' = "failed"
    /\ failed_step' = "credential"
    /\ batch' = <<>>
    /\ UNCHANGED <<source, now, run, request, offset, total_records,
                   last_load_info, fetchLog, loads, table, result>>
    /\ UNCHANGED <<sinceLog, normVars, genVars>>

\* The request is sent and raise_for_status raises.
FetchHttpFails ==
    /\ pc = "fetching"
    /\ fetchLog' = Append(fetchLog, offset)
    /\ pc' = "failed"
    /\ failed_step' = "fetch"
    /\ batch' = <<>>
    /\ sinceLog' = Append(sinceLog, strftime(now - DAY))
    /\ UNCHANGED <<source, now, run, request, offset, total_records,
                   last_load_info, loads, table, result>>
    /\ UNCHANGED <<normVars, genVars>>

\* Mutant: the check for an empty batch is missing.
AfterFetchAlwaysLoads(b) == "loading"

\* Where the loop goes with the batch it accumulated.
AfterFetch(b) == IF b = <<>> THEN "done" ELSE "loading"

\* The request is answered; the loop accumulates the page into batch.
FetchPage ==
    /\ pc = "fetching"
    /\ fetchLog' = Append(fetchLog, offset)
    /\ LET page == Page(source, offset, BATCH_SIZE, now)
       IN  IF AccumulateRaises(page)
           THEN /\ pc' = "failed"
                /\ failed_step' = "normalize"
                /\ batch' = <<>>
           ELSE /\ batch' = Accumulate(page, now)
                /\ pc' = AfterFetch(batch')
                /\ UNCHANGED failed_step
    /\ sinceLog' = Append(sinceLog, strftime(now - DAY))
    /\ UNCHANGED <<source, now, run, request, offset, total_records,
                   last_load_info, loads, table, result>>
    /\ UNCHANGED <<normVars, genVars>>

\* Mutant: the loop stops after any load, a full batch included.
AfterLoadStops(batch_size) == IF batch_size <= BATCH_SIZE THEN "done" ELSE "fetching"

\* Mutant: the loop goes on after a short batch and stops only on an empty page.
AfterLoadGoesOn(batch_size) == IF batch_size < 1 THEN "done" ELSE "fetching"

\* Where the loop goes after a load: on when the batch was full.
AfterLoad(batch_size) == IF batch_size < BATCH_SIZE THEN "done" ELSE "fetching"

\* Mutant: the cursor advances by the page limit.
AdvanceByBatchSize(off, b) == off + BATCH_SIZE

\* Mutant: the cursor does not move.
AdvanceStays(off, b) == off

\* The cursor after a successful load of b.
Advance(off, b) == off + Len(b)

\* pipeline.run succeeds: the totals and the offset advance by len(batch).
LoadBatch ==
    /\ pc = "loading"
    /\ table' = pipeline_run(table, batch)
    /\ loads' = Append(loads, batch)
    /\ last_load_info' = Len(loads')
    /\ total_records' = total_records + Len(batch)
    /\ offset' = Advance(offset, batch)
    /\ batch' = <<>>
    /\ pc' = AfterLoad(Len(batch))
    /\ UNCHANGED <<source, now, run, request, fetchLog, failed_step, result>>
    /\ UNCHANGED <<sinceLog, normVars, genVars>>

\* Mutant: the exception of pipeline.run is logged and the loop goes on.
OnLoadErrorContinue == "fetching"

\* Where an exception out of pipeline.run takes the loop.
OnLoadError == "failed"

\* pipeline.run raises: the exception is logged and raised again.
LoadFails ==
    /\ pc = "loading"
    /\ pc' = OnLoadError
    /\ failed_step' = "load"
    /\ UNCHANGED batch
    /\ UNCHANGED <<source, now, run, request, offset, total_records,
                   last_load_info, fetchLog, loads, table, result>>
    /\ UNCHANGED <<sinceLog, normVars, genVars>>

\* Mutant: an invocation that loaded some records reports success.
ReturnValuePartialSuccess(state, total, info, step) ==
    IF state = "done" \/ total > 0
    THEN [status |-> "success", message |-> total, load_info |-> info, code |-> 200]
    ELSE [status |-> "error", message |-> step, code |-> 500]

\* What crime_data_loader returns from the state the loop ended in.
ReturnValue(state, total, info, step) ==
    IF state = "done"
    THEN [status |-> "success", message |-> total, load_info |-> info, code |-> 200]
    ELSE [status |-> "error", message |-> step, code |-> 500]

\* The function returns.
Return ==
    /\ pc \in {"done", "failed"}
    /\ result = NoResult
    /\ result' = ReturnValue(pc, total_records, last_load_info, failed_step)
    /\ UNCHANGED <<source, now, run, request, pc, offset, total_records,
                   last_load_info, batch, fetchLog, loads, table, failed_step>>
    /\ UNCHANGED <<sinceLog, normVars, genVars>>

Next ==
    \/ Invoke
    \/ FetchCredentialFails
    \/ FetchHttpFails
    \/ FetchPage
    \/ LoadBatch
    \/ LoadFails
    \/ Return

Spec == Init /\ [][Next]_vars

(* --------------------------- helper operators -------------------------- *)

\* The rows the API serves to an invocation at the current clock, and their number.
Served == ResultSet(source, strftime(now - DAY))

N == Len(Served)

CeilDiv(a, b) == (a + b - 1) \div b

RECURSIVE Concat(_)
Concat(ss) == IF ss = <<>> THEN <<>> ELSE Head(ss) \o Concat(Tail(ss))

IdSeq(rows) == [i \in 1..Len(rows) |-> rows[i].id]

\* The served rows as process_record leaves them.
Normalized == [i \in 1..N |-> process_record(Served[i], now)]

NoDuplicateIds(rows) ==
    \A i, j \in 1..Len(rows) : i # j => rows[i].id # rows[j].id

Last(s) == s[Len(s)]

Rows(rows) == {rows[i] : i \in 1..Len(rows)}

(* ------------------------------- claims -------------------------------- *)

\* C1: for a static source of N records, an invocation in which nothing fails
\* ends with status success and a processed-record total equal to N.
C1_TotalEqualsN ==
    /\ pc = "done" => total_records = N /\ failed_step = "none"
    /\ (result # NoResult /\ failed_step = "none") =>
           /\ result.status = "success"
           /\ result.message = N

\* C1 witness: a run over a source of two full pages returned success.
C1_Witness ==
    /\ result # NoResult
    /\ result.status = "success"
    /\ N = 2 * BATCH_SIZE
    /\ result.message = 2 * BATCH_SIZE

\* C2 as stated: a full run issues exactly ceil(N / L) page fetches.
C2_CeilFetches ==
    pc = "done" => Len(fetchLog) = CeilDiv(N, BATCH_SIZE)

\* C2 amended: a full run issues exactly floor(N / L) + 1 page fetches, that
\* is ceil(N / L) when N is no multiple of L and one more, answered by an
\* empty page, when N is a multiple of L (N = 0 included).
C2_FloorPlusOneFetches ==
    pc = "done" =>
        /\ Len(fetchLog) = (N \div BATCH_SIZE) + 1
        /\ (N % BATCH_SIZE # 0 => Len(fetchLog) = CeilDiv(N, BATCH_SIZE))
        /\ (N % BATCH_SIZE = 0 => Len(fetchLog) = CeilDiv(N, BATCH_SIZE) + 1)

\* C2 witness: a source of exactly two full pages took three fetches.
C2_Witness ==
    /\ pc = "done"
    /\ N = 2 * BATCH_SIZE
    /\ Len(fetchLog) = 3
    /\ Len(loads) = 2

\* C3: if the load of page k+1 fails after k pages were loaded, the offset
\* and the processed total stay at k * L, the invocation is in the failed
\* state, and no further fetch or load happens in that invocation.
C3_LoadFailureNoProgress ==
    [][ /\ failed_step' = "load" =>
              /\ pc' = "failed"
              /\ offset' = BATCH_SIZE * Len(loads')
              /\ total_records' = BATCH_SIZE * Len(loads')
              /\ IdSeq(Concat(loads')) = IdSeq(SubSeq(Served', 1, offset'))
        /\ (failed_step = "load" /\ run' = run) =>
              /\ UNCHANGED <<pc, offset, total_records, fetchLog, loads, table>>
              /\ result' = ReturnValue("failed", total_records, last_load_info, "load")
      ]_vars

\* C3 witness: the load of the third page failed after two pages were loaded.
C3_Witness ==
    /\ failed_step = "load"
    /\ Len(loads) = 2
    /\ offset = 2 * BATCH_SIZE
    /\ Len(fetchLog) = 3
    /\ result # NoResult

\* C4: every batch is loaded as a merge-upsert keyed by id (the write
\* disposition of the resource), so the table holds at most one row per id
\* and, once an invocation has completed, exactly the rows of one complete run.
C4_MergeUpsertOneRowPerId ==
    /\ NoDuplicateIds(table)
    /\ pc = "done" => Rows(table) = Rows(Normalized)

C6_FailureIsReported ==
    /\ failed_step # "none" => pc = "failed"
    /\ result # NoResult =>
           /\ result.status = "success" <=> failed_step = "none"
           /\ failed_step # "none" =>
                  /\ result.status = "error"
                  /\ result.code = 500
                  /\ DOMAIN result = {"status", "message", "code"}

\* C6 witness: an invocation that had loaded two pages returned the error result.
C6_Witness ==
    /\ result # NoResult
    /\ result.status = "error"
    /\ failed_step \in {"credential", "fetch", "normalize", "load"}
    /\ Len(loads) = 2
    /\ total_records > 0

\* C7: the batches loaded by an invocation, one after the other, are the
\* served rows in source order up to the offset, and all of them after a
\* full run: no record is loaded twice and none is skipped.
C7_NoRepeatNoSkip ==
    /\ offset <= N
    /\ Concat(loads) = SubSeq(Normalized, 1, offset)
    /\ NoDuplicateIds(Concat(loads))
    /\ pc = "done" => Concat(loads) = Normalized

\* C7 witness: a full run over three pages, the last one short.
C7_Witness ==
    /\ pc = "done"
    /\ Len(loads) = 3
    /\ N = 2 * BATCH_SIZE + 1
    /\ \E i \in 1..(N - 1) : Served[i].updated_on.t > Served[i + 1].updated_on.t

\* C8: an empty page leads to done with no load; a non-empty page is loaded,
\* and after its load a short page leads to done and a full page to the next
\* fetch; once done or failed, the invocation fetches and loads nothing more.
C8_ExhaustionRule ==
    [][ /\ (pc = "fetching" /\ fetchLog' # fetchLog /\ failed_step' = "none") =>
              /\ Page(source, offset, BATCH_SIZE, now) = <<>> =>
                     pc' = "done" /\ UNCHANGED <<loads, table, offset>>
              /\ Page(source, offset, BATCH_SIZE, now) # <<>> =>
                     pc' = "loading" /\ Len(batch') >= 1
        /\ (pc = "loading" /\ loads' # loads) =>
              /\ Last(loads') # <<>>
              /\ Len(Last(loads')) < BATCH_SIZE => pc' = "done"
              /\ Len(Last(loads')) = BATCH_SIZE => pc' = "fetching"
              /\ Len(Last(loads')) <= BATCH_SIZE
        /\ (pc \in {"done", "failed"} /\ run' = run) =>
              UNCHANGED <<pc, fetchLog, loads, table, offset>>
      ]_vars

\* C8 witness: a short non-empty page was loaded and ended the run.
C8_Witness ==
    /\ pc = "done"
    /\ Len(loads) = 2
    /\ Len(Last(loads)) = 1
    /\ Len(fetchLog) = 2

\* C9: every request carries as offset the number of records loaded so far
\* in the invocation; the offset changes only with a successful load, by the
\* number of records of the batch loaded, and never decreases.
C9_OffsetIsRecordsLoaded ==
    [][ /\ offset' = Len(Concat(loads'))
        /\ (fetchLog' # fetchLog /\ run' = run) =>
              /\ fetchLog' = Append(fetchLog, Len(Concat(loads)))
              /\ UNCHANGED offset
        /\ (offset' # offset /\ run' = run) =>
              /\ pc = "loading"
              /\ loads' = Append(loads, batch)
              /\ offset' = offset + Len(batch)
              /\ offset' > offset
      ]_vars

\* C9 witness: the third request of an invocation went out at offset 2 * L
\* once two full pages were loaded.
C9_Witness ==
    /\ Len(fetchLog) = 3
    /\ fetchLog = <<0, BATCH_SIZE, 2 * BATCH_SIZE>>
    /\ Len(loads) = 2

\* C10: if a record of a page fails normalization, no record of that page
\* reaches the sink, the offset stays at the start of that page, the
\* invocation is in the failed state, and the earlier pages stay loaded; no
\* row with an unparsed date is ever in the table.
C10_FailFastNormalization ==
    /\ \A i \in 1..Len(table) : \A f \in TimeFields \cap DOMAIN table[i] :
           table[i][f].kind = "datetime" /\ table[i][f].t >= 0
    /\ failed_step = "normalize" =>
           LET page == Page(source, offset, BATCH_SIZE, now)
           IN  /\ pc = "failed"
               /\ \E i \in 1..Len(page) : process_record_raises(page[i])
               /\ Ids(page) \cap Ids(Concat(loads)) = {}
               /\ offset = BATCH_SIZE * Len(loads)
               /\ total_records = offset
               /\ Concat(loads) = SubSeq(Normalized, 1, offset)
               /\ Ids(Concat(loads)) \subseteq Ids(table)
               /\ Len(table) >= offset

\* C10 witness: the second record of the second page failed normalization
\* after the first page was loaded.
C10_Witness ==
    /\ failed_step = "normalize"
    /\ Len(loads) = 1
    /\ offset = BATCH_SIZE
    /\ Len(source) > BATCH_SIZE + 2
    /\ process_record_raises(source[BATCH_SIZE + 2])
    /\ ~process_record_raises(source[BATCH_SIZE + 1])
    /\ run = 1
    /\ Len(table) = BATCH_SIZE

\* C11 as stated: in a run that fails with a credential error no request has
\* been issued and no batch has been loaded.
C11_CredentialOnlyBeforeFirstFetch ==
    failed_step = "credential" => fetchLog = <<>> /\ loads = <<>>

\* C11 amended: the credential is obtained anew inside every page fetch,
\* before the request of that page goes out; a run that fails with a
\* credential error has sent no request for the page it failed at, while all
\* the pages requested before it, if any, were full pages and are loaded.
C11_CredentialBeforeEachRequest ==
    failed_step = "credential" =>
        /\ pc = "failed"
        /\ Len(fetchLog) = Len(loads)
        /\ \A i \in 1..Len(loads) : Len(loads[i]) = BATCH_SIZE
        /\ \A i \in 1..Len(fetchLog) : fetchLog[i] = BATCH_SIZE * (i - 1)
        /\ offset = BATCH_SIZE * Len(loads)
        /\ offset \notin Rows(fetchLog)
        /\ result # NoResult => result.status = "error"

\* C11 witness: the credential failed at the third fetch, after two pages
\* had been requested and loaded.
C11_Witness ==
    /\ failed_step = "credential"
    /\ Len(fetchLog) = 2
    /\ Len(loads) = 2
    /\ offset = 2 * BATCH_SIZE

\* C12: every batch handed to the sink is non-empty and has at most
\* BATCH_SIZE records, and a batch shorter than BATCH_SIZE is the last one
\* loaded in its invocation.
C12_FullOrLastBatch ==
    /\ \A i \in 1..Len(loads) :
           /\ Len(loads[i]) >= 1
           /\ Len(loads[i]) <= BATCH_SIZE
           /\ Len(loads[i]) < BATCH_SIZE => i = Len(loads)
    /\ pc = "loading" =>
           /\ Len(batch) >= 1
           /\ Len(batch) <= BATCH_SIZE
           /\ \A i \in 1..Len(loads) : Len(loads[i]) = BATCH_SIZE
    /\ (loads # <<>> /\ Len(Last(loads)) < BATCH_SIZE) => pc = "done"

\* C12 witness: two full batches and a last batch of one record were loaded.
C12_Witness ==
    /\ Len(loads) = 3
    /\ Len(loads[1]) = BATCH_SIZE
    /\ Len(loads[2]) = BATCH_SIZE
    /\ Len(loads[3]) = 1

(* -------------------- process_record on its own ------------------------ *)

\* A field the raw record does not carry.
Absent == [kind |-> "absent", t |-> 0]

\* What the API may send in date or updated_on: nothing, a well-formed
\* timestamp text, or a text that does not match the format.
RawTimes == {Absent, Malformed} \cup {Text(t) : t \in 0..StartTime}

\* A raw record with an id and, when given, date, updated_on and primary_type.
MkRaw(i, d, u, p) ==
    [f \in {"id"} \cup (IF d = Absent THEN {} ELSE {"date"})
                  \cup (IF u = Absent THEN {} ELSE {"updated_on"})
                  \cup (IF p THEN {"primary_type"} ELSE {}) |->
        CASE f = "id" -> i
          [] f = "date" -> d
          [] f = "updated_on" -> u
          [] f = "primary_type" -> "THEFT"]

RawRecords == {MkRaw(i, d, u, p) : i \in 1..2, d \in RawTimes, u \in RawTimes, p \in BOOLEAN}

\* No invocation of crime_data_loader has started; the API serves data.
LoaderIdle(data, clock) ==
    /\ source = data
    /\ now = clock
    /\ run = 0
    /\ request = [offset |-> 0, max_batches |-> 0]
    /\ pc = "idle"
    /\ offset = 0
    /\ total_records = 0
    /\ last_load_info = 0
    /\ batch = <<>>
    /\ fetchLog = <<>>
    /\ loads = <<>>
    /\ table = <<>>
    /\ failed_step = "none"
    /\ result = NoResult
    /\ sinceLog = <<>>

InitNorm ==
    /\ LoaderIdle(<<>>, StartTime)
    /\ GenIdle
    /\ raw \in RawRecords
    /\ normalized = <<>>
    /\ norm_pc = "input"

\* process_record returns the record.
NormalizeReturns ==
    /\ norm_pc = "input"
    /\ ~process_record_raises(raw)
    /\ normalized' = process_record(raw, now)
    /\ norm_pc' = "returned"
    /\ UNCHANGED <<loaderVars, genVars, raw>>

\* process_record logs the error and raises it again.
NormalizeRaises ==
    /\ norm_pc = "input"
    /\ process_record_raises(raw)
    /\ norm_pc' = "raised"
    /\ UNCHANGED <<loaderVars, genVars, raw, normalized>>

NextNorm ==
    \/ NormalizeReturns
    \/ NormalizeRaises

SpecNorm == InitNorm /\ [][NextNorm]_vars

MaxTicks == 1

\* crime_data_loader is invoked once.
InvokeOnce ==
    /\ run = 0
    /\ Invoke

\* The wall clock moves on between two steps of a running invocation.
Tick ==
    /\ pc \in {"fetching", "loading"}
    /\ now < StartTime + MaxTicks
    /\ now' = now + 1
    /\ UNCHANGED <<source, run, request, pc, offset, total_records, last_load_info,
                   batch, fetchLog, loads, table, failed_step, result, sinceLog>>
    /\ UNCHANGED <<normVars, genVars>>

NextClock ==
    \/ InvokeOnce
    \/ FetchCredentialFails
    \/ FetchHttpFails
    \/ FetchPage
    \/ LoadBatch
    \/ LoadFails
    \/ Return
    \/ Tick

SpecClock == Init /\ [][NextClock]_vars

\* C14: all pages of an invocation are drawn from the result set of the
\* filter of its first request (sinceLog[1]): a record that satisfied that
\* filter (the source does not change) has been loaded when the invocation
\* ends normally, also when the clock moved on between the requests.
C14_OneFilterPerInvocation ==
    (pc = "done" /\ sinceLog # <<>>) =>
        Ids(ResultSet(source, sinceLog[1])) \subseteq Ids(Concat(loads))

(* ----------------------------- termination ----------------------------- *)

\* A page fetch that has been started returns a page or raises.
FetchStep == FetchCredentialFails \/ FetchHttpFails \/ FetchPage

\* A load that has been started returns or raises.
LoadStep == LoadBatch \/ LoadFails

\* One invocation whose calls to the collaborators all come back, each
\* with success or with a failure; the clock may move on in between.
SpecLive == SpecClock /\ WF_vars(FetchStep) /\ WF_vars(LoadStep)

Running == pc \in {"fetching", "loading"}

Terminated == pc \in {"done", "failed"}

\* C15: an invocation on a finite static source sends at most
\* floor(Len(source)/BATCH_SIZE) + 1 requests, and whatever the fetches and
\* loads do (succeed or fail), a running invocation eventually reaches
\* DONE or FAILED.
C15_Terminates ==
    /\ [](Len(fetchLog) <= (Len(source) \div BATCH_SIZE) + 1)
    /\ (Running ~> Terminated)

\* A run of several pages has ended normally, and its last request was the
\* one that the bound allows at most.
C15_Witness ==
    /\ pc = "done"
    /\ Len(loads) >= 2
    /\ Len(fetchLog) = (Len(source) \div BATCH_SIZE) + 1

(* --------------------- the generator get_crime_data --------------------- *)

\* Largest dataset the generator and the loop are run over.
GenMaxN == 4

\* BATCH_SIZE of src/duckdb_test.py, scaled from 500.
GEN_BATCH_SIZE == 2

\* '2025-01-01T00:00:00.000' on the day scale of the model.
GEN_SINCE == 1

\* What a record carries in date: nothing, a day before 2025, a day of 2025.
GenDates == {Absent, Text(GEN_SINCE - 1), Text(StartTime - DAY), Text(StartTime)}

\* A dataset of n records in updated_on descending order: the first s were
\* updated at StartTime, the others more than a day before; record i carries
\* the date d[i].
GenDataset(n, s, d) ==
    [i \in 1..n |->
        MkRaw(i, d[i], Text(IF i <= s THEN StartTime ELSE StartTime - DAY - 1), FALSE)]

\* $order date DESC: rows of equal date stay in stored order.
RECURSIVE OrderByDateDesc(_)
OrderByDateDesc(rows) ==
    IF rows = <<>>
    THEN <<>>
    ELSE LET top == CHOOSE t \in {rows[i].date.t : i \in 1..Len(rows)} :
                        \A i \in 1..Len(rows) : rows[i].date.t <= t
         IN  SelectSeq(rows, LAMBDA r : r.date.t = top)
                 \o OrderByDateDesc(SelectSeq(rows, LAMBDA r : r.date.t # top))

\* $where date >= '2025-01-01T00:00:00.000' with $order date DESC: a row
\* without a date does not satisfy the comparison.
GenResultSet(data) ==
    OrderByDateDesc(SelectSeq(data,
        LAMBDA r : "date" \in DOMAIN r /\ r.date.t >= GEN_SINCE))

\* The response to one request of get_crime_data.
GenPage(data, off, limit) ==
    LET rows == GenResultSet(data)
    IN  SubSeq(rows, off + 1, Min(off + limit, Len(rows)))

\* Mutant: the generator moves on by one row after a page.
GenAdvanceByOne(off) == off + 1

\* offset += BATCH_SIZE
GenAdvance(off) == off + GEN_BATCH_SIZE

InitGen ==
    /\ \E n \in 0..GenMaxN : \E s \in 0..n : \E d \in [1..n -> GenDates] :
           LoaderIdle(GenDataset(n, s, d), StartTime)
    /\ NormIdle
    /\ GenIdle

\* get_crime_data() is iterated: offset = 0.
GenStart ==
    /\ g_pc = "idle"
    /\ g_pc' = "fetching"
    /\ g_offset' = 0
    /\ UNCHANGED <<g_yielded, g_fetchLog>>
    /\ UNCHANGED <<loaderVars, normVars>>

\* One turn of the while loop: an empty page ends the generator, any other
\* page is yielded record by record and the offset moves on by BATCH_SIZE.
GenFetchPage ==
    /\ g_pc = "fetching"
    /\ g_fetchLog' = Append(g_fetchLog, g_offset)
    /\ LET data == GenPage(source, g_offset, GEN_BATCH_SIZE)
       IN  IF data = <<>>
           THEN /\ g_pc' = "done"
                /\ UNCHANGED <<g_offset, g_yielded>>
           ELSE /\ g_yielded' = g_yielded \o data
                /\ g_offset' = GenAdvance(g_offset)
                /\ UNCHANGED g_pc
    /\ UNCHANGED <<loaderVars, normVars>>

\* requests.get or response.json() raises out of the generator.
GenFetchFails ==
    /\ g_pc = "fetching"
    /\ g_fetchLog' = Append(g_fetchLog, g_offset)
    /\ g_pc' = "failed"
    /\ UNCHANGED <<g_offset, g_yielded>>
    /\ UNCHANGED <<loaderVars, normVars>>

\* crime_data_loader is invoked once, over the dataset the generator has
\* read to its end.
InvokeAfterGen ==
    /\ g_pc = "done"
    /\ InvokeOnce

NextGen ==
    \/ GenStart
    \/ GenFetchPage
    \/ GenFetchFails
    \/ InvokeAfterGen
    \/ FetchCredentialFails
    \/ FetchHttpFails
    \/ FetchPage
    \/ LoadBatch
    \/ LoadFails
    \/ Return

SpecGen == InitGen /\ [][NextGen]_vars

\* C16: over every static source the generator yields the records with the
\* same ids, in the same order and each once, as the loop loads.
C16_SameSequenceAsLoop ==
    (g_pc = "done" /\ pc = "done") =>
        /\ IdSeq(g_yielded) = IdSeq(Concat(loads))
        /\ NoDuplicateIds(g_yielded)

\* C16, as the code has it: the generator yields the rows of its own query
\* (date >= 2025-01-01, date descending), each once and in that order, raw;
\* the loop loads the rows of its query (updated in the last day, updated_on
\* descending), normalized. When the two queries select the same rows in the
\* same order, what the loop loads is process_record of what the generator
\* yields, record by record.
C16_SamePagingOwnQuery ==
    /\ g_pc \in {"fetching", "failed"} =>
           g_yielded = SubSeq(GenResultSet(source), 1,
                              Min(g_offset, Len(GenResultSet(source))))
    /\ g_pc = "done" => g_yielded = GenResultSet(source)
    /\ pc = "done" => Concat(loads) = Normalized
    /\ (g_pc = "done" /\ pc = "done" /\ GenResultSet(source) = Served) =>
           /\ IdSeq(g_yielded) = IdSeq(Concat(loads))
           /\ NoDuplicateIds(g_yielded)
           /\ Concat(loads) =
                  [i \in 1..Len(g_yielded) |-> process_record(g_yielded[i], now)]

\* Both have ended over a dataset that both queries select in full and in
\* the same order: the generator in pages of GEN_BATCH_SIZE closed by an
\* empty page, the loop in a full and a short page.
C16_Witness ==
    /\ g_pc = "done"
    /\ pc = "done"
    /\ GenResultSet(source) = Served
    /\ Len(source) = GenMaxN
    /\ Len(Served) = Len(source)
    /\ Len(g_fetchLog) >= 3
    /\ Len(loads) >= 2

====
